---- MODULE Spec2Model ----
(***************************************************************************)
(* Model of jenkins_auto_build_enhanced.py: the sequential build workflow  *)
(* (run_build_workflow), the build trigger with queue resolution, the      *)
(* completion poller, the external endpoint poller and the interrupt       *)
(* handler that runs on SIGINT/SIGTERM and reads the tracked build handle. *)
(*                                                                         *)
(* The workflow runs in the main thread; a Python signal handler runs in   *)
(* the same thread between two bytecodes of whatever was executing, so the *)
(* workflow is suspended while a handler frame is on hstack.  sys.exit(1)  *)
(* in the handler raises SystemExit at the interrupted point; it is caught *)
(* by a bare "except:" and by nothing else.                                *)
(***************************************************************************)
EXTENDS Integers, Sequences, FiniteSets, TLC

\* ---------------------------------------------------------------- bounds
MaxJobs == 3          \* longest job list
MaxBuildNumber == 2   \* build numbers the server hands out are 1..MaxBuildNumber
MaxSignals == 2       \* termination signals delivered in one run

\* The settings explored, in seconds and attempts:
\* <<wait_between_builds, timeout_seconds, check_interval_seconds, max_attempts>>
Settings == {<<0, 1, 1, 1>>, <<1, 5, 2, 3>>}

\* ------------------------------------------------------ program constants
None == -2            \* Python None, kept apart from every integer the code uses
SENTINEL == -1        \* "use lastBuild": trigger_build's return when no number was resolved
QueuePolls == 30      \* for attempt in range(30)
LastBuild == 0        \* the /lastBuild/api/json endpoint, as a status-fetch target
TransportError == 0   \* an HTTP call that raised instead of answering a status
ExpectedStatus == 200 \* polling_config.expected_status_code default

OkStatuses == {200, 201}
PostStatuses == {200, 201, 500, TransportError}
GetStatuses == {200, 500, TransportError}
BuildNumbers == 1..MaxBuildNumber

VARIABLES
    \* configuration, loaded once
    jobs, enable_polling, wait_time, timeout, check_interval, max_attempts,
    \* run_build_workflow and its callees: position and locals
    pc, i, build_number, completed, attempt, elapsed, poll_attempt, polled,
    remaining, result, exit_status,
    \* the tracked build handle
    current_job, current_build_number,
    \* frames of handle_interrupt, innermost last
    hstack,
    \* what the environment did and what was sent to it
    signals, triggered, post_status, location, queue_polls, resolved,
    q_number, q_number_at, cancelled, fetched, wait_polls, wait_last,
    poll_sleeps, stops, wait_ok, failed,
    q_error, fetch_failures, poll_last, poll_runs, snapshot_own

config == <<jobs, enable_polling, wait_time, timeout, check_interval, max_attempts>>
locals == <<i, build_number, completed, attempt, elapsed, poll_attempt, polled,
            remaining, result, exit_status>>
handle == <<current_job, current_build_number>>
trigger_hist == <<triggered, post_status, location, queue_polls, resolved,
                  q_number, q_number_at, cancelled>>
wait_hist == <<fetched, wait_polls, wait_last, wait_ok>>
more_hist == <<q_error, fetch_failures, poll_last, poll_runs, snapshot_own>>
vars == <<config, pc, locals, handle, hstack, signals, trigger_hist, wait_hist,
          poll_sleeps, stops, failed, more_hist>>

\* ------------------------------------------------------------ pure helpers

\* Python truthiness of an optional integer: None and 0 are false.
Truthy(v) == v # None /\ v # 0

\* The name of the job at 0-based index k of the job list.
JobAt(k) == jobs[k + 1]

\* trigger_build's return value from the POST's status and the queue's answer.
TriggerResultNoSentinel(status, number) ==
    IF status \in OkStatuses THEN number ELSE None

TriggerResult(status, number) ==
    IF status \in OkStatuses
    THEN IF Truthy(number) THEN number ELSE SENTINEL
    ELSE None

\* get_job_status: the endpoint a status fetch for build_number goes to.
StatusTargetAlwaysNumber(bn) == bn

StatusTarget(bn) ==
    IF Truthy(bn) /\ bn # SENTINEL THEN bn ELSE LastBuild

\* handle_interrupt's test of the handle.
HandleSetJobOnly == Truthy(current_job)

HandleSet == Truthy(current_job) /\ Truthy(current_build_number)

Running == hstack = <<>> /\ pc # "exited"

\* ------------------------------------------------------------------ Init
Init ==
    /\ jobs \in {[k \in 1..n |-> k] : n \in 1..MaxJobs}
    /\ enable_polling \in BOOLEAN
    /\ \E c \in Settings :
        /\ wait_time = c[1]
        /\ timeout = c[2]
        /\ check_interval = c[3]
        /\ max_attempts = c[4]
    /\ pc = "trigger"
    /\ i = 0
    /\ build_number = None
    /\ completed = FALSE
    /\ attempt = 0
    /\ elapsed = 0
    /\ poll_attempt = 0
    /\ polled = FALSE
    /\ remaining = 0
    /\ result = "None"
    /\ exit_status = None
    /\ current_job = None
    /\ current_build_number = None
    /\ hstack = <<>>
    /\ signals = 0
    /\ triggered = <<>>
    /\ post_status = None
    /\ location = FALSE
    /\ queue_polls = 0
    /\ resolved = None
    /\ q_number = None
    /\ q_number_at = 0
    /\ cancelled = FALSE
    /\ fetched = {}
    /\ wait_polls = 0
    /\ wait_last = "none"
    /\ poll_sleeps = 0
    /\ stops = <<>>
    /\ wait_ok = {}
    /\ failed = {}
    /\ q_error = FALSE
    /\ fetch_failures = 0
    /\ poll_last = None
    /\ poll_runs = 0
    /\ snapshot_own = TRUE

\* ------------------------------------------------- trigger_build (228-288)

\* What one queue poll's answer makes get_build_number_from_queue do (321-344).
QueuePollOutcomeNoShortCircuit(status, number, is_cancelled) ==
    IF status = 200
    THEN IF is_cancelled THEN "cancelled" ELSE "pending"
    ELSE "error"

QueuePollOutcomeRetryOnError(status, number, is_cancelled) ==
    IF status = 200
    THEN IF Truthy(number) THEN "number"
         ELSE IF is_cancelled THEN "cancelled" ELSE "pending"
    ELSE "pending"

QueuePollOutcome(status, number, is_cancelled) ==
    IF status = 200
    THEN IF Truthy(number) THEN "number"
         ELSE IF is_cancelled THEN "cancelled" ELSE "pending"
    ELSE "error"

\* range(30) of line 318: the loop body runs for attempt 0..29.
InRangeOffByOne(a) == a <= QueuePolls

InRange(a) == a < QueuePolls

\* get_build_number_from_queue returns r, and trigger_build returns with it.
QueueReturn(status, r) ==
    /\ resolved' = r
    /\ build_number' = TriggerResult(status, r)
    /\ pc' = "trigger_ret"

\* The POST of line 265 and, when it is refused or carries no Location
\* header, the return of trigger_build.
TriggerPost ==
    /\ Running /\ pc = "trigger"
    /\ \E s \in PostStatuses, loc \in BOOLEAN :
        /\ triggered' = Append(triggered, JobAt(i))
        /\ post_status' = s
        /\ location' = (s \in OkStatuses /\ loc)
        /\ IF s \in OkStatuses /\ loc
           THEN /\ pc' = "queue"
                /\ UNCHANGED <<build_number, resolved>>
           ELSE QueueReturn(s, None)
    /\ UNCHANGED <<more_hist, config, i, completed, attempt, elapsed, poll_attempt, polled,
                   remaining, result, exit_status, handle, hstack, signals,
                   queue_polls, q_number, q_number_at, cancelled, wait_hist,
                   poll_sleeps, stops, failed>>

\* One iteration of the queue loop (318-344).
QueuePoll ==
    /\ Running /\ pc = "queue" /\ InRange(attempt)
    /\ \E s \in GetStatuses, number \in BuildNumbers \cup {None}, c \in BOOLEAN :
        LET out == QueuePollOutcome(s, number, c) IN
        /\ queue_polls' = queue_polls + 1
        /\ IF s = 200 /\ Truthy(number) /\ ~Truthy(q_number)
           THEN q_number' = number /\ q_number_at' = queue_polls + 1
           ELSE UNCHANGED <<q_number, q_number_at>>
        /\ cancelled' = (s = 200 /\ ~Truthy(number) /\ c)
        /\ q_error' = (s # 200)
        /\ CASE out = "number" -> QueueReturn(post_status, number) /\ UNCHANGED attempt
             [] out = "pending" -> /\ attempt' = attempt + 1
                                   /\ UNCHANGED <<pc, build_number, resolved>>
             [] OTHER -> QueueReturn(post_status, None) /\ UNCHANGED attempt
    /\ UNCHANGED <<snapshot_own, fetch_failures, poll_last, poll_runs, config, i, completed, elapsed, poll_attempt, polled, remaining,
                   result, exit_status, handle, hstack, signals, triggered,
                   post_status, location, wait_hist, poll_sleeps, stops, failed>>

\* The loop ran out of attempts (346-347).
QueueExhausted ==
    /\ Running /\ pc = "queue" /\ ~InRange(attempt)
    /\ QueueReturn(post_status, None)
    /\ UNCHANGED <<more_hist, config, i, completed, attempt, elapsed, poll_attempt, polled,
                   remaining, result, exit_status, handle, hstack, signals,
                   triggered, post_status, location, queue_polls, q_number,
                   q_number_at, cancelled, wait_hist, poll_sleeps, stops, failed>>

\* trigger_build's frame is gone: its locals and the responses it saw.
ForgetTriggerLocals ==
    /\ attempt' = 0 /\ queue_polls' = 0 /\ resolved' = None
    /\ q_number' = None /\ q_number_at' = 0 /\ post_status' = None
    /\ q_error' = FALSE

\* run_build_workflow's test of what trigger_build returned (576-578).
CheckTriggerIgnoreFailure ==
    /\ Running /\ pc = "trigger_ret"
    /\ pc' = "set_job"
    /\ ForgetTriggerLocals
    /\ failed' = IF build_number = None THEN failed \cup {JobAt(i)} ELSE failed
    /\ UNCHANGED <<snapshot_own, fetch_failures, poll_last, poll_runs, config, i, build_number, completed, elapsed, poll_attempt,
                   polled, remaining, result, exit_status, handle, hstack, signals,
                   triggered, location, cancelled, wait_hist, poll_sleeps, stops>>

CheckTrigger ==
    /\ Running /\ pc = "trigger_ret"
    /\ IF build_number = None
       THEN /\ pc' = "returned"
            /\ result' = "False"
            /\ failed' = failed \cup {JobAt(i)}
       ELSE /\ pc' = "set_job"
            /\ UNCHANGED <<result, failed>>
    /\ ForgetTriggerLocals
    /\ UNCHANGED <<snapshot_own, fetch_failures, poll_last, poll_runs, config, i, build_number, completed, elapsed, poll_attempt,
                   polled, remaining, exit_status, handle, hstack, signals,
                   triggered, location, cancelled, wait_hist, poll_sleeps, stops>>

\* --------------------------------------- tracking the build (580-582, 589-591)

SetCurrentJob ==
    /\ Running /\ pc = "set_job"
    /\ current_job' = JobAt(i)
    /\ pc' = "set_number"
    /\ UNCHANGED <<more_hist, config, locals, current_build_number, hstack, signals,
                   trigger_hist, wait_hist, poll_sleeps, stops, failed>>

SetCurrentBuildNumberSkipped ==
    /\ Running /\ pc = "set_number"
    /\ pc' = "wait"
    /\ elapsed' = 0
    /\ UNCHANGED <<more_hist, config, i, build_number, completed, attempt,
                   poll_attempt, polled, remaining, result, exit_status, handle,
                   hstack, signals, trigger_hist, wait_hist, poll_sleeps, stops,
                   failed>>

SetCurrentBuildNumber ==
    /\ Running /\ pc = "set_number"
    /\ current_build_number' = build_number
    /\ pc' = "wait"
    /\ elapsed' = 0
    /\ UNCHANGED <<more_hist, config, i, build_number, completed, attempt, poll_attempt,
                   polled, remaining, result, exit_status, current_job, hstack,
                   signals, trigger_hist, wait_hist, poll_sleeps, stops, failed>>

\* Line 590 left out: the name stays in the handle.
ClearCurrentJobSkipped ==
    /\ Running /\ pc = "clear_job"
    /\ pc' = "clear_number"
    /\ UNCHANGED <<more_hist, config, locals, handle, hstack, signals,
                   trigger_hist, wait_hist, poll_sleeps, stops, failed>>

\* Line 591 left out: the number stays in the handle.
ClearCurrentBuildNumberSkipped ==
    /\ Running /\ pc = "clear_number"
    /\ pc' = "between"
    /\ UNCHANGED <<more_hist, config, locals, handle, hstack, signals,
                   trigger_hist, wait_hist, poll_sleeps, stops, failed>>

ClearCurrentJob ==
    /\ Running /\ pc = "clear_job"
    /\ current_job' = None
    /\ pc' = "clear_number"
    /\ UNCHANGED <<more_hist, config, locals, current_build_number, hstack, signals,
                   trigger_hist, wait_hist, poll_sleeps, stops, failed>>

ClearCurrentBuildNumber ==
    /\ Running /\ pc = "clear_number"
    /\ current_build_number' = None
    /\ pc' = "between"
    /\ UNCHANGED <<more_hist, config, locals, current_job, hstack, signals, trigger_hist,
                   wait_hist, poll_sleeps, stops, failed>>

\* ------------------------------------- wait_for_build_completion (384-432)

\* What get_job_status hands back: None for a failed fetch, else a snapshot
\* that is still building or terminal with a result.
Snapshots == {"fetch_failed", "building", "SUCCESS", "FAILURE"}

\* A failed fetch taken for a failed build: the wait ends with false.
WaitOutcomeAbortOnFetchFailure(snap) ==
    CASE snap = "SUCCESS" -> "true"
      [] snap \in {"FAILURE", "fetch_failed"} -> "false"
      [] OTHER -> "continue"

\* The poller's verdict on one snapshot (406-427).
WaitOutcomeAnyTerminal(snap) ==
    CASE snap \in {"SUCCESS", "FAILURE"} -> "true"
      [] OTHER -> "continue"

WaitOutcome(snap) ==
    CASE snap = "SUCCESS" -> "true"
      [] snap = "FAILURE" -> "false"
      [] OTHER -> "continue"

\* The loop condition of line 403, with e seconds gone since start_time.
BeforeDeadlineInclusive(e) == e <= timeout

BeforeDeadline(e) == e < timeout

\* Whether the payload a fetch of this target returns can describe the build
\* this run's trigger started.  A numbered URL (368) names that build; the
\* lastBuild URL (370) names whatever build of the job started last, which
\* is an older one for as long as the new one sits in the queue.
SnapshotOwners(target) == IF target = LastBuild THEN BOOLEAN ELSE {TRUE}

\* One iteration of the loop of line 403: fetch, judge, maybe sleep.
\* snapshot_own remembers, for a SUCCESS snapshot, whose build it described.
WaitPoll ==
    /\ Running /\ pc = "wait" /\ BeforeDeadline(elapsed)
    /\ \E snap \in Snapshots, own \in SnapshotOwners(StatusTarget(build_number)) :
        /\ snapshot_own' = (snap = "SUCCESS" => own)
        /\ fetched' = fetched \cup {StatusTarget(build_number)}
        /\ wait_polls' = wait_polls + 1
        /\ wait_last' = snap
        /\ fetch_failures' = fetch_failures + (IF snap = "fetch_failed" THEN 1 ELSE 0)
        /\ CASE WaitOutcome(snap) = "true" ->
                  completed' = TRUE /\ pc' = "wait_ret" /\ UNCHANGED elapsed
             [] WaitOutcome(snap) = "false" ->
                  completed' = FALSE /\ pc' = "wait_ret" /\ UNCHANGED elapsed
             [] OTHER ->
                  elapsed' = elapsed + check_interval /\ UNCHANGED <<pc, completed>>
    /\ UNCHANGED <<q_error, poll_last, poll_runs, config, i, build_number, attempt, poll_attempt, polled,
                   remaining, result, exit_status, handle, hstack, signals,
                   trigger_hist, wait_ok, poll_sleeps, stops, failed>>

\* The deadline has passed (403, 431-432).
WaitTimeout ==
    /\ Running /\ pc = "wait" /\ ~BeforeDeadline(elapsed)
    /\ completed' = FALSE
    /\ pc' = "wait_ret"
    /\ UNCHANGED <<more_hist, config, i, build_number, attempt, elapsed, poll_attempt, polled,
                   remaining, result, exit_status, handle, hstack, signals,
                   trigger_hist, wait_hist, poll_sleeps, stops, failed>>

\* run_build_workflow's test of what the wait returned (585-587).
CheckWaitIgnoreFailure ==
    /\ Running /\ pc = "wait_ret"
    /\ pc' = "clear_job"
    /\ IF completed
       THEN wait_ok' = wait_ok \cup {JobAt(i)} /\ UNCHANGED failed
       ELSE failed' = failed \cup {JobAt(i)} /\ UNCHANGED wait_ok
    /\ elapsed' = 0 /\ wait_polls' = 0 /\ wait_last' = "none"
    /\ fetch_failures' = 0 /\ snapshot_own' = TRUE
    /\ UNCHANGED <<q_error, poll_last, poll_runs, config, i, build_number, completed, attempt, poll_attempt,
                   polled, remaining, result, exit_status, handle, hstack, signals,
                   trigger_hist, fetched, poll_sleeps, stops>>

CheckWait ==
    /\ Running /\ pc = "wait_ret"
    /\ IF completed
       THEN /\ pc' = "clear_job"
            /\ wait_ok' = wait_ok \cup {JobAt(i)}
            /\ UNCHANGED <<result, failed>>
       ELSE /\ pc' = "returned"
            /\ result' = "False"
            /\ failed' = failed \cup {JobAt(i)}
            /\ UNCHANGED wait_ok
    /\ elapsed' = 0 /\ wait_polls' = 0 /\ wait_last' = "none"
    /\ fetch_failures' = 0 /\ snapshot_own' = TRUE
    /\ UNCHANGED <<q_error, poll_last, poll_runs, config, i, build_number, completed, attempt, poll_attempt,
                   polled, remaining, exit_status, handle, hstack, signals,
                   trigger_hist, fetched, poll_sleeps, stops>>

\* --------------------------------------------- between two jobs (595-616)

\* Line 600: the external poll runs only after the first job.
ShouldPollAlways(k) == enable_polling

ShouldPoll(k) == k = 0 /\ enable_polling

\* Lines 607-616: count down wait_time seconds, or go on at once.
StartNextJob ==
    IF wait_time > 0
    THEN pc' = "countdown" /\ remaining' = wait_time /\ UNCHANGED i
    ELSE pc' = "trigger" /\ i' = i + 1 /\ UNCHANGED remaining

\* "return True" indented into the loop body: the first job that completes
\* ends the workflow with success.
BetweenReturnsInLoop ==
    /\ Running /\ pc = "between"
    /\ build_number' = None
    /\ location' = FALSE
    /\ cancelled' = FALSE
    /\ fetched' = {}
    /\ pc' = "returned"
    /\ result' = "True"
    /\ UNCHANGED <<more_hist, config, i, completed, attempt, elapsed, poll_attempt, polled,
                   remaining, exit_status, handle, hstack, signals, triggered,
                   post_status, queue_polls, resolved, q_number, q_number_at,
                   wait_polls, wait_last, wait_ok, poll_sleeps, stops, failed>>

\* Line 596 and what follows it, up to the first blocking call.  The
\* iteration's build_number and what was recorded about its trigger and its
\* wait are dead from here on.
Between ==
    /\ Running /\ pc = "between"
    /\ build_number' = None
    /\ location' = FALSE
    /\ cancelled' = FALSE
    /\ fetched' = {}
    /\ IF i < Len(jobs) - 1
       THEN IF ShouldPoll(i)
            THEN /\ pc' = "ext_poll"
                 /\ poll_attempt' = 1
                 /\ poll_sleeps' = 0
                 /\ poll_runs' = poll_runs + 1
                 /\ UNCHANGED <<i, remaining, result>>
            ELSE /\ StartNextJob
                 /\ UNCHANGED <<poll_attempt, poll_sleeps, poll_runs, result>>
       ELSE /\ pc' = "returned"
            /\ result' = "True"
            /\ UNCHANGED <<i, remaining, poll_attempt, poll_sleeps, poll_runs>>
    /\ UNCHANGED <<snapshot_own, q_error, fetch_failures, poll_last, config, completed, attempt, elapsed, polled, exit_status,
                   handle, hstack, signals, triggered, post_status, queue_polls,
                   resolved, q_number, q_number_at, wait_polls, wait_last,
                   wait_ok, stops, failed>>

\* Line 462: the response counts as a success.
PollMatches(s) == s # TransportError /\ s = ExpectedStatus

\* Line 479: the interval is slept after every attempt but the last.
SleepAfterAlways(a) == TRUE

SleepAfter(a) == a < max_attempts

\* One attempt of poll_interface (454-481).
ExtPoll ==
    /\ Running /\ pc = "ext_poll"
    /\ \E s \in GetStatuses :
        /\ poll_last' = s
        /\ IF PollMatches(s)
           THEN /\ pc' = "ext_json"
                /\ UNCHANGED <<poll_attempt, polled, poll_sleeps>>
           ELSE /\ poll_sleeps' = poll_sleeps + (IF SleepAfter(poll_attempt) THEN 1 ELSE 0)
                /\ IF poll_attempt < max_attempts
                   THEN /\ poll_attempt' = poll_attempt + 1
                        /\ UNCHANGED <<pc, polled>>
                   ELSE /\ polled' = FALSE
                        /\ pc' = "poll_ret"
                        /\ UNCHANGED poll_attempt
    /\ UNCHANGED <<snapshot_own, q_error, fetch_failures, poll_runs, config, i, build_number,
                   completed, attempt, elapsed, remaining, result, exit_status,
                   handle, hstack, signals, trigger_hist, wait_hist, stops, failed>>

\* The try/except of lines 464-469 that prints the body, then "return True".
ExtJsonDone ==
    /\ Running /\ pc = "ext_json"
    /\ polled' = TRUE
    /\ pc' = "poll_ret"
    /\ UNCHANGED <<more_hist, config, i, build_number, completed, attempt, elapsed,
                   poll_attempt, remaining, result, exit_status, handle, hstack,
                   signals, trigger_hist, wait_hist, poll_sleeps, stops, failed>>

\* run_build_workflow's test of what poll_interface returned (603-605).
CheckPoll ==
    /\ Running /\ pc = "poll_ret"
    /\ IF polled
       THEN StartNextJob /\ UNCHANGED result
       ELSE pc' = "returned" /\ result' = "False" /\ UNCHANGED <<i, remaining>>
    /\ poll_attempt' = 0
    /\ poll_last' = None
    /\ UNCHANGED <<snapshot_own, q_error, fetch_failures, poll_runs, config, build_number,
                   completed, attempt, elapsed, polled, exit_status, handle,
                   hstack, signals, trigger_hist, wait_hist, poll_sleeps, stops,
                   failed>>

\* One second of the countdown (611-613); after the last, the next iteration.
Countdown ==
    /\ Running /\ pc = "countdown"
    /\ remaining' = remaining - 1
    /\ IF remaining = 1
       THEN pc' = "trigger" /\ i' = i + 1
       ELSE UNCHANGED <<pc, i>>
    /\ UNCHANGED <<more_hist, config, build_number, completed, attempt, elapsed, poll_attempt,
                   polled, result, exit_status, handle, hstack, signals,
                   trigger_hist, wait_hist, poll_sleeps, stops, failed>>

\* main(): exit 0 on success, 1 on failure (696-703).
MainExit ==
    /\ Running /\ pc = "returned"
    /\ exit_status' = IF result = "True" THEN 0 ELSE 1
    /\ pc' = "exited"
    /\ UNCHANGED <<more_hist, config, i, build_number, completed, attempt, elapsed,
                   poll_attempt, polled, remaining, result, handle, hstack,
                   signals, trigger_hist, wait_hist, poll_sleeps, stops, failed>>

\* ----------------------------------------------- handle_interrupt (96-125)

Top == hstack[Len(hstack)]
SetTop(f) == [hstack EXCEPT ![Len(hstack)] = f]

\* Frame positions inside the try block of lines 105-122.
InTry(f) == f.pc \in {"prompt", "reprompt", "stopped"}

\* A termination signal arrives: the handler starts on top of whatever runs,
\* tests the handle (102) and either prompts or goes straight to exit.
Signal ==
    /\ pc # "exited"
    /\ signals < MaxSignals
    /\ signals' = signals + 1
    /\ hstack' = Append(hstack,
                    [pc |-> IF HandleSet THEN "prompt" ELSE "exit",
                     prompted |-> HandleSet,
                     answer |-> "none",
                     stops |-> 0,
                     shown |-> IF HandleSet
                               THEN <<current_job, current_build_number>>
                               ELSE <<None, None>>,
                     stopped |-> <<None, None>>])
    /\ UNCHANGED <<more_hist, config, pc, locals, handle, trigger_hist, wait_hist,
                   poll_sleeps, stops, failed>>

\* The answer typed at the prompt (108-122); "eof" is input that raises.
Answers == {"y", "n", "other", "eof"}

HandlerInput ==
    /\ hstack # <<>> /\ Top.pc = "prompt"
    /\ \E a \in Answers :
        CASE a = "y" ->
               /\ stops' = Append(stops, <<current_job, current_build_number>>)
               /\ hstack' = SetTop([Top EXCEPT !.pc = "stopped", !.answer = a,
                                               !.stops = @ + 1,
                                               !.stopped = <<current_job,
                                                             current_build_number>>])
          [] a = "other" ->
               /\ hstack' = SetTop([Top EXCEPT !.pc = "reprompt"])
               /\ UNCHANGED stops
          [] OTHER ->
               /\ hstack' = SetTop([Top EXCEPT !.pc = "exit", !.answer = a])
               /\ UNCHANGED stops
    /\ UNCHANGED <<more_hist, config, pc, locals, handle, signals, trigger_hist, wait_hist,
                   poll_sleeps, failed>>

\* Neither yes nor no: "请输入 y 或 n" is printed and the loop of line 107
\* asks again (119-120).
HandlerReprompt ==
    /\ hstack # <<>> /\ Top.pc = "reprompt"
    /\ hstack' = SetTop([Top EXCEPT !.pc = "prompt"])
    /\ UNCHANGED <<more_hist, config, pc, locals, handle, signals, trigger_hist,
                   wait_hist, poll_sleeps, stops, failed>>

\* stop_build has returned; its outcome is logged (112-115).
HandlerAfterStop ==
    /\ hstack # <<>> /\ Top.pc = "stopped"
    /\ hstack' = SetTop([Top EXCEPT !.pc = "exit"])
    /\ UNCHANGED <<more_hist, config, pc, locals, handle, signals, trigger_hist, wait_hist,
                   poll_sleeps, stops, failed>>

\* The frames left once SystemExit, raised by the innermost frame, has
\* travelled outwards: a frame interrupted inside its try block catches it
\* (121) and goes on to its own exit; a frame already at line 124 is unwound.
RECURSIVE Unwind(_)
Unwind(st) ==
    IF st = <<>> THEN <<>>
    ELSE LET f == st[Len(st)] IN
         IF InTry(f)
         THEN [st EXCEPT ![Len(st)] = [f EXCEPT !.pc = "exit"]]
         ELSE Unwind(SubSeq(st, 1, Len(st) - 1))

\* Where SystemExit leaves the interrupted workflow: the bare except of line
\* 468 swallows it and poll_interface returns True; anywhere else the process
\* exits with status 1.
HandlerExit ==
    /\ hstack # <<>> /\ Top.pc = "exit"
    /\ LET rest == Unwind(SubSeq(hstack, 1, Len(hstack) - 1)) IN
        /\ hstack' = rest
        /\ IF rest # <<>>
           THEN UNCHANGED <<pc, polled, exit_status>>
           ELSE IF pc = "ext_json"
                THEN pc' = "poll_ret" /\ polled' = TRUE /\ UNCHANGED exit_status
                ELSE pc' = "exited" /\ exit_status' = 1 /\ UNCHANGED polled
    /\ UNCHANGED <<more_hist, config, i, build_number, completed, attempt, elapsed,
                   poll_attempt, remaining, result, handle, signals, trigger_hist,
                   wait_hist, poll_sleeps, stops, failed>>

\* ------------------------------------------------------------ specification
Next ==
    \/ TriggerPost
    \/ QueuePoll
    \/ QueueExhausted
    \/ CheckTrigger
    \/ SetCurrentJob
    \/ SetCurrentBuildNumber
    \/ WaitPoll
    \/ WaitTimeout
    \/ CheckWait
    \/ ClearCurrentJob
    \/ ClearCurrentBuildNumber
    \/ Between
    \/ ExtPoll
    \/ ExtJsonDone
    \/ CheckPoll
    \/ Countdown
    \/ MainExit
    \/ Signal
    \/ HandlerInput
    \/ HandlerReprompt
    \/ HandlerAfterStop
    \/ HandlerExit

Spec == Init /\ [][Next]_vars

\* The program has one thread: whenever it, or a handler running on top of
\* it, can take a step, it does; every HTTP call, sleep and input read
\* returns.  Signals arrive or not as the environment pleases.
ProgramStep ==
    \/ TriggerPost \/ QueuePoll \/ QueueExhausted \/ CheckTrigger
    \/ SetCurrentJob \/ SetCurrentBuildNumber
    \/ WaitPoll \/ WaitTimeout \/ CheckWait
    \/ ClearCurrentJob \/ ClearCurrentBuildNumber
    \/ Between \/ ExtPoll \/ ExtJsonDone \/ CheckPoll \/ Countdown \/ MainExit
    \/ HandlerInput \/ HandlerReprompt \/ HandlerAfterStop \/ HandlerExit

LiveSpec == Init /\ [][Next]_vars /\ WF_vars(ProgramStep)

\* ------------------------------------------------------------------ claims

JobSet == {jobs[k] : k \in 1..Len(jobs)}
HandleClear == current_job = None /\ current_build_number = None

\* C1: jobs are triggered once each, in list order, a job only after the
\* wait for the one before it returned true; and a run in which every job's
\* trigger and wait succeeded returns True, which no other run does.
C1_SequentialSuccess ==
    /\ Len(triggered) <= Len(jobs)
    /\ \A k \in 1..Len(triggered) : triggered[k] = jobs[k]
    /\ \A k \in 2..Len(triggered) : jobs[k - 1] \in wait_ok
    /\ (pc = "returned" /\ wait_ok = JobSet) => result = "True"
    /\ result = "True" => (wait_ok = JobSet /\ triggered = jobs)

C1_Witness ==
    pc = "returned" /\ result = "True" /\ Len(jobs) = 3 /\ triggered = jobs

\* C2: once job k's trigger returned None or its wait returned false, no job
\* after k has been or is ever triggered and the workflow has returned False.
C2_FailureAborts ==
    \A k \in 1..Len(jobs) :
        jobs[k] \in failed =>
            /\ Len(triggered) <= k
            /\ pc \in {"returned", "exited"}
            /\ result = "False"

C2_Witness ==
    /\ pc = "returned" /\ Len(jobs) = 3 /\ jobs[2] \in failed
    /\ build_number # None /\ ~completed

\* C3: the handle is clear before the first trigger and clear when
\* run_build_workflow has returned, whatever the wait returned.
C3_HandleClearOnReturn ==
    /\ triggered = <<>> => HandleClear
    /\ pc = "returned" => HandleClear

\* C4: the two fields of the handle are both set or both clear in every
\* state in which a signal can be delivered.
C4_HandlePairConsistent ==
    (current_job = None) <=> (current_build_number = None)

\* C5: once a signal was delivered and its handler has run to its end, the
\* process has exited with a non-zero status and the workflow is not running.
C5_SignalAlwaysExits ==
    (signals > 0 /\ hstack = <<>>) => (pc = "exited" /\ exit_status = 1)

\* C6 as stated: the handler prompts exactly when both fields are set, a stop
\* request follows only an affirmative answer, and one run sends at most one.
C6_AtMostOneStopPerRun ==
    /\ \A k \in 1..Len(hstack) :
          /\ hstack[k].prompted
                <=> (current_job # None /\ current_build_number # None)
          /\ hstack[k].stops = 1 => hstack[k].answer = "y"
    /\ Len(stops) <= 1

\* C6 amended: the handler prompts exactly when both fields are set; each
\* invocation of the handler sends at most one stop request and only after an
\* affirmative answer, a negative or unreadable answer sends none; one run
\* sends at most as many stop requests as signals were delivered.
C6_AtMostOneStopPerInvocation ==
    /\ \A k \in 1..Len(hstack) :
          /\ hstack[k].prompted
                <=> (current_job # None /\ current_build_number # None)
          /\ hstack[k].stops <= 1
          /\ hstack[k].stops = 1 <=> hstack[k].answer = "y"
          /\ hstack[k].answer # "none" => hstack[k].prompted
    /\ Len(stops) <= signals

C6_Witness ==
    /\ Len(hstack) = 2
    /\ hstack[1].stops = 1 /\ hstack[2].stops = 1
    /\ Len(stops) = 2

\* C7: once the queue item of the triggered job reported cancelled, the
\* workflow stops: the job is never tracked, no status fetch is made for it,
\* and a return of the workflow is a failure.
C7_CancelAborts ==
    cancelled =>
        /\ fetched = {}
        /\ current_job = None /\ current_build_number = None
        /\ pc = "returned" => result = "False"

\* C8: trigger_build returns None exactly when the POST did not answer 200 or
\* 201; after a 200/201 it returns the number the queue resolved, and the
\* sentinel -1 when none was resolved; the sentinel is neither None nor a
\* build number.
C8_TriggerResult ==
    /\ SENTINEL # None /\ SENTINEL \notin BuildNumbers
    /\ pc = "trigger_ret" =>
          /\ build_number = None <=> post_status \notin OkStatuses
          /\ post_status \in OkStatuses =>
                IF resolved \in BuildNumbers
                THEN build_number = resolved
                ELSE resolved = None /\ build_number = SENTINEL

C8_Witness ==
    /\ pc = "trigger_ret" /\ post_status = 201 /\ location
    /\ queue_polls = QueuePolls /\ build_number = SENTINEL

\* C9: a 200/201 trigger response without Location makes trigger_build return
\* the sentinel with no queue poll made; every status fetch of a wait on the
\* sentinel goes to lastBuild, and of a wait on a build number to that number.
C9_FetchTarget ==
    /\ (build_number # None /\ ~location) =>
          /\ build_number = SENTINEL
          /\ queue_polls = 0
          /\ fetched \subseteq {LastBuild}
    /\ build_number = SENTINEL => fetched \subseteq {LastBuild}
    /\ build_number \in BuildNumbers => fetched \subseteq {build_number}
    /\ build_number = None => fetched = {}

C9_Witness ==
    /\ pc = "wait_ret" /\ ~location /\ build_number = SENTINEL
    /\ wait_polls >= 2 /\ fetched = {LastBuild}

\* C10: when the queue first reports executable.number = n on poll k, after
\* k-1 polls that answered 200 with neither a number nor a cancellation,
\* resolution returns n having made exactly k polls, and polls no more (the
\* process may since have been ended by a signal).
C10_QueueShortCircuit ==
    q_number # None =>
        /\ pc \in {"trigger_ret", "exited"}
        /\ resolved = q_number
        /\ build_number = q_number
        /\ queue_polls = q_number_at
        /\ attempt = q_number_at - 1
        /\ q_number_at \in 1..QueuePolls

C10_Witness ==
    pc = "trigger_ret" /\ q_number = 2 /\ q_number_at = 3 /\ queue_polls = 3

Terminal == {"SUCCESS", "FAILURE"}

\* C11: a queue that answers 200 on every poll with neither a number nor a
\* cancellation makes resolution return None after exactly 30 polls; no
\* resolution ever makes a 31st.
C11_QueueExhaustion ==
    /\ queue_polls <= QueuePolls
    /\ (pc = "trigger_ret" /\ location /\ q_number = None /\ ~cancelled /\ ~q_error) =>
          /\ queue_polls = QueuePolls
          /\ resolved = None
          /\ build_number = SENTINEL

C11_Witness ==
    /\ pc = "trigger_ret" /\ location /\ q_number = None /\ ~cancelled /\ ~q_error
    /\ queue_polls = QueuePolls /\ resolved = None

\* C12: the wait returns true exactly when it ends on a fetch, made before
\* the deadline, of a terminal SUCCESS snapshot; it ends at the first terminal
\* snapshot (false for any other result) and returns false when the deadline
\* passes without one; j non-terminal fetches then a terminal one take j+1
\* polls, each non-terminal one followed by one interval of sleep.
C12_WaitResult ==
    /\ pc = "wait" => wait_last \notin Terminal
    /\ pc = "wait_ret" =>
          /\ completed <=> wait_last = "SUCCESS"
          /\ wait_last \in Terminal =>
                /\ elapsed < timeout
                /\ elapsed = (wait_polls - 1) * check_interval
          /\ wait_last \notin Terminal => (~completed /\ elapsed >= timeout)

C12_Witness ==
    /\ pc = "wait_ret" /\ completed /\ wait_polls = 3
    /\ fetch_failures = 0 /\ wait_last = "SUCCESS"

\* C13: poll_interface returns true at the first attempt whose status is the
\* expected one and makes no attempt after it; a wrong status and a transport
\* error each use up one attempt; with no match it returns false after
\* exactly max_attempts attempts; it has slept once after every attempt but
\* the last.
C13_ExternalPoll ==
    /\ pc \in {"ext_poll", "ext_json"} =>
          /\ poll_attempt \in 1..max_attempts
          /\ poll_sleeps = poll_attempt - 1
    /\ pc = "ext_poll" /\ poll_attempt > 1 => ~PollMatches(poll_last)
    /\ pc = "ext_json" => poll_last = ExpectedStatus
    /\ pc = "poll_ret" =>
          IF polled
          THEN poll_last = ExpectedStatus /\ poll_sleeps = poll_attempt - 1
          ELSE /\ poll_last \in GetStatuses \ {ExpectedStatus}
               /\ poll_attempt = max_attempts
               /\ poll_sleeps = max_attempts - 1

C13_Witness ==
    pc = "poll_ret" /\ polled /\ poll_attempt = 3 /\ poll_sleeps = 2

\* C14: every run ends: the process eventually exits.
C14_Terminates == <>(pc = "exited")

\* C15: the external poll runs at most once, only with polling enabled, only
\* after the first job's wait returned true and only when a second job
\* exists; the second job is triggered only after the poll returned true,
\* and a workflow whose poll returned false returns False.
C15_PollOnlyAfterFirstJob ==
    /\ poll_runs <= 1
    /\ pc \in {"ext_poll", "ext_json", "poll_ret"} =>
          (i = 0 /\ poll_runs = 1 /\ Len(triggered) = 1)
    /\ poll_runs = 1 =>
          (enable_polling /\ Len(jobs) >= 2 /\ jobs[1] \in wait_ok)
    /\ (poll_runs = 1 /\ ~polled) =>
          /\ Len(triggered) = 1
          /\ pc = "returned" => result = "False"
    /\ (enable_polling /\ Len(triggered) >= 2) => (poll_runs = 1 /\ polled)

C15_Witness ==
    /\ pc = "returned" /\ result = "True" /\ Len(jobs) = 3
    /\ enable_polling /\ poll_runs = 1

\* C16: a failed status fetch never ends the wait: like every non-terminal
\* fetch it is followed by one interval of sleep and another look at the
\* deadline; failed fetches followed by a terminal SUCCESS give true, and a
\* wait that saw only failed fetches returns false, and only once the
\* deadline has passed.
C16_FetchFailureTolerated ==
    /\ fetch_failures <= wait_polls
    /\ pc = "wait" => elapsed = wait_polls * check_interval
    /\ pc = "wait_ret" =>
          /\ wait_last = "fetch_failed" => (~completed /\ elapsed >= timeout)
          /\ wait_last = "SUCCESS" => completed
          /\ (wait_polls > 0 /\ fetch_failures = wait_polls) =>
                (~completed /\ elapsed >= timeout)

C16_Witness ==
    /\ pc = "wait_ret" /\ completed
    /\ wait_polls = 3 /\ fetch_failures = 2

\* C17: a queue poll that answers a non-200 status or raises ends resolution
\* at once with None, and so does a 200 poll that reports cancelled: no poll
\* and no sleep follows it, however few polls were made.
C17_QueueAbort ==
    /\ q_error =>
          /\ pc \in {"trigger_ret", "exited"}
          /\ resolved = None
          /\ build_number = SENTINEL
          /\ attempt = queue_polls - 1
    /\ cancelled =>
          /\ pc # "queue"
          /\ resolved = None
          /\ pc = "trigger_ret" => attempt = queue_polls - 1

C17_Witness ==
    pc = "trigger_ret" /\ q_error /\ queue_polls = 2 /\ resolved = None

\* C18: while wait_for_build_completion runs for job i, and until its result
\* has been taken, the handle holds job i's name and the value trigger_build
\* returned for job i.
C18_HandleDuringWait ==
    pc \in {"wait", "wait_ret"} =>
        /\ current_job = JobAt(i)
        /\ current_build_number = build_number
        /\ build_number # None

C18_Witness ==
    /\ pc = "wait" /\ i = 1 /\ wait_polls >= 1
    /\ current_job = jobs[2] /\ current_build_number \in BuildNumbers

\* C19: with timeout T and interval I, a wait that never sees a terminal
\* snapshot returns false at a time t with T <= t < T + I, after the least
\* number of polls n with n * I >= T; for T = 5, I = 2 that is after 3 polls,
\* 6 seconds in.
C19_TimeoutWindow ==
    (pc = "wait_ret" /\ wait_last \notin Terminal) =>
        /\ ~completed
        /\ timeout <= elapsed /\ elapsed < timeout + check_interval
        /\ elapsed = wait_polls * check_interval
        /\ (timeout = 5 /\ check_interval = 2) => (wait_polls = 3 /\ elapsed = 6)

C19_Witness ==
    /\ pc = "wait_ret" /\ wait_last = "building" /\ ~completed
    /\ timeout = 5 /\ check_interval = 2 /\ wait_polls = 3

\* C20: the handler never prompts while the handle holds the sentinel -1,
\* and every stop request names a build number that queue resolution
\* returned.
C20_StopNeverSentinel ==
    /\ \A k \in 1..Len(hstack) :
          hstack[k].prompted => current_build_number # SENTINEL
    /\ \A k \in 1..Len(stops) : stops[k][2] \in BuildNumbers

\* C22: whatever the moment a signal is delivered, a handler that prompts
\* shows the name of the job being run together with the value trigger_build
\* returned for that very job, and the pair it passes to stop_build is the
\* pair it showed.
C22_PairFromOneTrigger ==
    /\ HandleSet =>
          /\ current_job = JobAt(i)
          /\ current_build_number = build_number
          /\ triggered[Len(triggered)] = JobAt(i)
    /\ \A k \in 1..Len(hstack) :
          /\ hstack[k].prompted => hstack[k].shown = <<JobAt(i), build_number>>
          /\ hstack[k].stops = 1 => hstack[k].stopped = hstack[k].shown
    /\ \A k \in 1..Len(stops) : stops[k] = <<JobAt(i), build_number>>

C22_Witness ==
    /\ i = 1 /\ Len(hstack) = 1
    /\ hstack[1].stops = 1
    /\ hstack[1].shown = <<jobs[2], 2>>
    /\ stops = <<(<<jobs[2], 2>>)>>

TriggerPcs == {"trigger", "queue", "trigger_ret"}

\* C23: while trigger_build runs, queue resolution included, the handle is
\* clear: a handler started then does not prompt and sends no stop request,
\* and no stop request has been sent by the time the process exits.
C23_NoStopDuringTrigger ==
    /\ pc \in TriggerPcs =>
          /\ HandleClear
          /\ stops = <<>>
          /\ \A k \in 1..Len(hstack) :
                /\ ~hstack[k].prompted
                /\ hstack[k].pc = "exit"
                /\ hstack[k].stops = 0
    /\ (pc = "exited" /\ queue_polls > 0) => (exit_status = 1 /\ stops = <<>>)

C23_Witness ==
    /\ pc = "exited" /\ exit_status = 1 /\ stops = <<>>
    /\ post_status \in OkStatuses /\ location
    /\ queue_polls = 2 /\ Len(triggered) = 2
    /\ HandleClear

\* C21: the wait for a job returns true, which is what lets the workflow go
\* on and return True, only on a terminal SUCCESS snapshot of the build this
\* run's trigger started, never on one that describes another build of the
\* same job.
C21_SuccessIsOwnBuild ==
    (pc = "wait_ret" /\ completed) => snapshot_own

====
